---- MODULE Spec2Model ----
(***************************************************************************)
(* HMQC optical code: compression engine (js/compression.js), FEC engine   *)
(* (class HMQCECC), metadata codec and matrix layout (js/hmqc-core.js) and *)
(* the encode / decode pipelines (js/encoder.js, js/decoder.js).           *)
(*                                                                         *)
(* A Uint8Array is a sequence of numbers in 0..255; JavaScript's 0-based   *)
(* index i is the sequence's index i + 1.  A JavaScript string is a record *)
(* [kind |-> "string", val |-> its code units]; a Uint8Array returned to a *)
(* caller that may also receive a string is [kind |-> "bytes", val |-> _]. *)
(***************************************************************************)
EXTENDS Integers, Sequences, FiniteSets, TLC

VARIABLES
    cpc, cx, ct, cz, cout,         \* compression harness: compress, then decompress
    fpc, fdata, fcode, frecv,      \* FEC harness: encode, corrupt in transit, decode
    fblk, fres,
    hpc, htype, horig, hcomp,      \* header harness: generate, tamper in transit, parse
    hsent, hbytes, hmeta,
    mpc, mm, mn, msm, msn,         \* sizing harness: two stream lengths and their sides
    selectedFile, encDataType,     \* HMQCEncoder: this.selectedFile, this.dataType
    encIsProcessing,               \* HMQCEncoder: this.isProcessing
    encodeBtnDisabled,             \* #encodeBtn: its disabled property
    encRead,                       \* the readFile the suspended encodeFile awaits
    codeCanvas,                    \* what renderToCanvas drew on #codeCanvas
    encStatus,                     \* the type of the status the encoder shows
    encRun,                        \* history: the file and type of the run that drew the canvas
    encCount,                      \* history: files selected, runs ended, runs in flight
    scannedFile,                   \* HMQCDecoder: this.scannedFile
    decIsProcessing,               \* HMQCDecoder: this.isProcessing
    decodeBtnDisabled,             \* #decodeBtn: its disabled property
    decLoad,                       \* the loadImageData the suspended decodeFile awaits
    decFec,                        \* the object ecc.decode returned to the last decodeFile
    decMetadata,                   \* what parseMetadata returned to the last decodeFile
    decContent,                    \* what #decodedContent shows
    decStatus,                     \* the status the decoder shows, and the error behind it
    decRun,                        \* history: the file of the last decodeFile, its block
                                   \* flags, the length it handed to decompress
    decCount,                      \* history: files dropped, runs ended, runs in flight
    lpc, lbytes, lw, lh,           \* layout harness: a stream and the grid it is laid on
    lmodules, lback, lcanvas,      \* its modules, the bytes read back, the canvas drawn
    locMarkers,                    \* locator harness: the corners handed to decodeFile
    locModules,                    \* the modules its extractModules returned, if it ran
    eccInstance                    \* constructor harness: what new HMQCECC() gave its caller

cvars == <<cpc, cx, ct, cz, cout>>

fvars == <<fpc, fdata, fcode, frecv, fblk, fres>>

hvars == <<hpc, htype, horig, hcomp, hsent, hbytes, hmeta>>

mvars == <<mpc, mm, mn, msm, msn>>

evars == <<selectedFile, encDataType, encIsProcessing, encodeBtnDisabled, encRead, codeCanvas, encStatus, encRun,
           encCount>>

dvars == <<scannedFile, decIsProcessing, decodeBtnDisabled, decLoad, decFec, decMetadata, decContent,
           decStatus, decRun, decCount>>

lvars == <<lpc, lbytes, lw, lh, lmodules, lback, lcanvas>>

kvars == <<locMarkers, locModules>>

gvars == <<eccInstance>>

vars == <<cvars, fvars, hvars, mvars, evars, dvars, lvars, kvars, gvars>>

(***************************************************************************)
(* Bounds of the model                                                     *)
(***************************************************************************)
MaxSegs == 2                         \* an input payload is at most MaxSegs runs of one byte

RunLens == {1, 2, 5}                 \* lengths of the runs an input payload is built from

ByteAlphabet == {0, 97, 160, 254, 255}   \* 0x00, 'a', 0xA0, 0xFE (RLE sentinel), 0xFF (terminator)

DataTypes == {"text", "image", "audio", "binary"}

(***************************************************************************)
(* Byte and sequence helpers                                               *)
(***************************************************************************)
Byte == 0..255

Rep(b, n) == [k \in 1..n |-> b]

\* bytes.slice(from, to) with 0 <= from
Slice(s, from, to) ==
    LET hi == IF to < Len(s) THEN to ELSE Len(s)
    IN  IF from >= hi THEN <<>> ELSE [k \in 1..(hi - from) |-> s[from + k]]

\* s[i] where an out-of-range read (undefined) is used as a number: undefined << 8,
\* undefined stored into a Uint8Array and undefined | x all give 0
ByteOr0(s, i) == IF i >= 0 /\ i < Len(s) THEN s[i + 1] ELSE 0

RECURSIVE Flatten(_)
\* the concatenation of a sequence of sequences, in order (halved, so that the
\* evaluation nests no deeper than the logarithm of its length)
Flatten(ss) ==
    IF Len(ss) = 0 THEN <<>>
    ELSE IF Len(ss) = 1 THEN ss[1]
    ELSE LET mid == Len(ss) \div 2
         IN  Flatten([k \in 1..mid |-> ss[k]])
             \o Flatten([k \in 1..(Len(ss) - mid) |-> ss[mid + k]])

RECURSIVE Iterate(_, _, _)
\* a loop: Body applied n times to the loop's state, one application per iteration.
\* A Body leaves the state of a finished loop unchanged, so n is any number that is
\* at least the number of iterations.  The first half of the iterations is evaluated
\* before the second half starts; the evaluation nests no deeper than log(n)
Iterate(Body(_), state, n) ==
    IF n <= 0 THEN state
    ELSE IF n = 1 THEN Body(state)
    ELSE LET half == Iterate(Body, state, n \div 2)
         IN  IF half = half THEN Iterate(Body, half, n - n \div 2) ELSE half

\* HMQCCompressor.concatenateArrays(arr1, arr2)
concatenateArrays(arr1, arr2) == arr1 \o arr2

(***************************************************************************)
(* Run-length pass                                                         *)
(***************************************************************************)
\* the inner while of runLengthEncode: one more repetition of bytes[i], up to 255
RunCountBody(s) ==
    IF s.i + s.count < Len(s.bytes) /\ s.bytes[s.i + s.count + 1] = s.bytes[s.i + 1]
       /\ s.count < 255
    THEN [s EXCEPT !.count = s.count + 1]
    ELSE s

RunCount(bytes, i) == Iterate(RunCountBody, [bytes |-> bytes, i |-> i, count |-> 1], 255).count

\* the outer while of runLengthEncode
RleEncodeBody(s) ==
    IF s.i >= Len(s.bytes) THEN s
    ELSE LET count == RunCount(s.bytes, s.i)
         IN  IF count > 3
             THEN [s EXCEPT !.result = s.result \o <<254, count, s.bytes[s.i + 1]>>,
                            !.i = s.i + count]
             ELSE IF s.bytes[s.i + 1] = 254
                  THEN [s EXCEPT !.result = s.result \o <<254, 1, 254>>, !.i = s.i + 1]
                  ELSE [s EXCEPT !.result = Append(s.result, s.bytes[s.i + 1]),
                                 !.i = s.i + 1]

runLengthEncode(bytes) ==
    Iterate(RleEncodeBody, [bytes |-> bytes, i |-> 0, result |-> <<>>], Len(bytes)).result

\* the for loop of runLengthDecode with a record taken only where three more bytes
\* follow the sentinel
Mut_RleDecodeBody(s) ==
    IF s.i >= Len(s.bytes) THEN s
    ELSE IF s.bytes[s.i + 1] = 254 /\ s.i + 3 < Len(s.bytes)
         THEN [s EXCEPT !.result = s.result \o Rep(s.bytes[s.i + 3], s.bytes[s.i + 2]),
                        !.i = s.i + 3]
         ELSE [s EXCEPT !.result = Append(s.result, s.bytes[s.i + 1]), !.i = s.i + 1]

\* the for loop of runLengthDecode
RleDecodeBody(s) ==
    IF s.i >= Len(s.bytes) THEN s
    ELSE IF s.bytes[s.i + 1] = 254 /\ s.i + 2 < Len(s.bytes)
         THEN [s EXCEPT !.result = s.result \o Rep(s.bytes[s.i + 3], s.bytes[s.i + 2]),
                        !.i = s.i + 3]
         ELSE [s EXCEPT !.result = Append(s.result, s.bytes[s.i + 1]), !.i = s.i + 1]

runLengthDecode(compressed) ==
    Iterate(RleDecodeBody, [bytes |-> compressed, i |-> 0, result |-> <<>>],
            Len(compressed)).result

(***************************************************************************)
(* Text mode                                                               *)
(***************************************************************************)
\* the dictionary of compressText / reverseDict of decompressText: word k (1-based)
\* has code 0x80 + k - 1
TextDictionary ==
    << <<116, 104, 101>>, <<97, 110, 100>>, <<102, 111, 114>>, <<97, 114, 101>>,
       <<98, 117, 116>>, <<110, 111, 116>>, <<121, 111, 117>>, <<97, 108, 108>>,
       <<99, 97, 110>>, <<104, 101, 114>>, <<119, 97, 115>>, <<111, 110, 101>>,
       <<111, 117, 114>>, <<111, 117, 116>>, <<100, 97, 121>>, <<103, 101, 116>>,
       <<104, 97, 115>>, <<104, 105, 109>>, <<104, 105, 115>>, <<104, 111, 119>>,
       <<105, 116, 115>>, <<109, 97, 121>>, <<110, 101, 119>>, <<110, 111, 119>>,
       <<111, 108, 100>>, <<115, 101, 101>>, <<116, 119, 111>>, <<119, 97, 121>>,
       <<119, 104, 111>>, <<98, 111, 121>>, <<100, 105, 100>>, <<115, 104, 101>> >>

\* dictionary[word]: the code of a word, 0 (undefined, falsy) when it has none
DictCode(word) ==
    IF \E k \in 1..Len(TextDictionary) : TextDictionary[k] = word
    THEN 128 + (CHOOSE k \in 1..Len(TextDictionary) : TextDictionary[k] = word) - 1
    ELSE 0

\* Number.prototype.toString of a byte: its decimal digits as character codes
DecimalDigits(n) ==
    IF n >= 100 THEN <<48 + (n \div 100), 48 + ((n \div 10) % 10), 48 + (n % 10)>>
    ELSE IF n >= 10 THEN <<48 + (n \div 10), 48 + (n % 10)>>
    ELSE <<48 + n>>

\* String(uint8Array), i.e. Array.prototype.join: "97,32,99"
JoinDecimal(bytes) ==
    Flatten([k \in 1..Len(bytes) |->
                IF k = 1 THEN DecimalDigits(bytes[k]) ELSE <<44>> \o DecimalDigits(bytes[k])])

\* the UTF-8 encoding of a string of code points of the basic plane (no surrogates)
Utf8(chars) ==
    Flatten([k \in 1..Len(chars) |->
                LET c == chars[k]
                IN  IF c < 128 THEN <<c>>
                    ELSE IF c < 2048 THEN <<192 + (c \div 64), 128 + (c % 64)>>
                    ELSE <<224 + (c \div 4096), 128 + ((c \div 64) % 64),
                           128 + (c % 64)>>])

\* new TextEncoder().encode(text): text is converted to a string first; a Uint8Array
\* converts to its elements in decimal joined by commas; the string is encoded in UTF-8
TextEncode(text) ==
    IF text.kind = "bytes" THEN JoinDecimal(text.val) ELSE Utf8(text.val)

\* the while loop of compressText: the longest dictionary word at i (len = 3, then 2)
CompressTextBody(s) ==
    IF s.i >= Len(s.bytes) THEN s
    ELSE LET w3 == IF s.i + 3 <= Len(s.bytes)
                   THEN DictCode(Slice(s.bytes, s.i, s.i + 3)) ELSE 0
             w2 == IF s.i + 2 <= Len(s.bytes)
                   THEN DictCode(Slice(s.bytes, s.i, s.i + 2)) ELSE 0
         IN  IF w3 # 0 THEN [s EXCEPT !.result = Append(s.result, w3), !.i = s.i + 3]
             ELSE IF w2 # 0 THEN [s EXCEPT !.result = Append(s.result, w2), !.i = s.i + 2]
             ELSE [s EXCEPT !.result = Append(s.result, s.bytes[s.i + 1]), !.i = s.i + 1]

compressText(text) ==
    LET bytes == TextEncode(text)
    IN  Iterate(CompressTextBody, [bytes |-> bytes, i |-> 0, result |-> <<>>],
                Len(bytes)).result

\* new TextDecoder().decode(bytes) for the byte sequences of this model: an ASCII byte
\* is its code unit; a byte >= 0x80 that starts no valid UTF-8 sequence decodes to U+FFFD
TextDecode(bytes) ==
    [kind |-> "string",
     val  |-> [k \in 1..Len(bytes) |-> IF bytes[k] < 128 THEN bytes[k] ELSE 65533]]

\* the for loop of decompressText: a byte with an entry in reverseDict is replaced by
\* the characters of its word
ExpandText(compressed) ==
    Flatten([k \in 1..Len(compressed) |->
                IF compressed[k] >= 128 /\ compressed[k] <= 159
                THEN TextDictionary[compressed[k] - 128 + 1]
                ELSE <<compressed[k]>>])

decompressText(compressed) == TextDecode(ExpandText(compressed))

(***************************************************************************)
(* Binary mode: delta coding and frequent-pattern substitution             *)
(***************************************************************************)
\* the windows of one length, in the order the counting loop visits them
WindowsOf(bytes, len) ==
    IF Len(bytes) < len THEN <<>>
    ELSE [k \in 1..(Len(bytes) - len + 1) |-> Slice(bytes, k - 1, k - 1 + len)]

\* every window the counting loops visit: len = 5, 4, 3 and i ascending
AllWindows(bytes) == WindowsOf(bytes, 5) \o WindowsOf(bytes, 4) \o WindowsOf(bytes, 3)

\* patterns.get(seq) after the counting loops
PatternCount(ws, seq) == Cardinality({k \in DOMAIN ws : ws[k] = seq})

\* Array.prototype.sort((a, b) => b[1] - a[1]): by count descending, stable, so
\* that equal counts keep the Map's insertion order (the first occurrence in ws);
\* one step moves the next entry of the sorted order from idx to out
SortBody(s) ==
    IF s.idx = {} THEN s
    ELSE LET best == CHOOSE k \in s.idx : \A j \in s.idx :
                        \/ PatternCount(s.ws, s.ws[k]) > PatternCount(s.ws, s.ws[j])
                        \/ PatternCount(s.ws, s.ws[k]) = PatternCount(s.ws, s.ws[j]) /\ k <= j
         IN  [s EXCEPT !.out = Append(s.out, s.ws[best]), !.idx = s.idx \ {best}]

SortByCount(ws, idx) ==
    Iterate(SortBody, [ws |-> ws, idx |-> idx, out |-> <<>>], Cardinality(idx)).out

\* topPatterns: the patterns counted more than 3 times, most frequent first, at most 16
TopPatterns(bytes) ==
    LET ws     == AllWindows(bytes)
        first  == {k \in DOMAIN ws : /\ \A j \in 1..(k - 1) : ws[j] # ws[k]
                                     /\ PatternCount(ws, ws[k]) > 3}
        sorted == SortByCount(ws, first)
    IN  Slice(sorted, 0, 16)

\* encodeMap.has(seq) / encodeMap.get(seq) = 0xA0 + index; 0 when seq has no code
PatternCode(top, seq) ==
    IF \E k \in 1..Len(top) : top[k] = seq
    THEN 160 + (CHOOSE k \in 1..Len(top) : top[k] = seq) - 1
    ELSE 0

\* the encoding while loop: the longest coded pattern at i (len = 5, 4, 3)
SubstituteBody(s) ==
    IF s.i >= Len(s.bytes) THEN s
    ELSE LET c5 == IF s.i + 5 <= Len(s.bytes)
                   THEN PatternCode(s.top, Slice(s.bytes, s.i, s.i + 5)) ELSE 0
             c4 == IF s.i + 4 <= Len(s.bytes)
                   THEN PatternCode(s.top, Slice(s.bytes, s.i, s.i + 4)) ELSE 0
             c3 == IF s.i + 3 <= Len(s.bytes)
                   THEN PatternCode(s.top, Slice(s.bytes, s.i, s.i + 3)) ELSE 0
         IN  IF c5 # 0 THEN [s EXCEPT !.result = Append(s.result, c5), !.i = s.i + 5]
             ELSE IF c4 # 0 THEN [s EXCEPT !.result = Append(s.result, c4), !.i = s.i + 4]
             ELSE IF c3 # 0 THEN [s EXCEPT !.result = Append(s.result, c3), !.i = s.i + 3]
             ELSE [s EXCEPT !.result = Append(s.result, s.bytes[s.i + 1]), !.i = s.i + 1]

Substitute(bytes, top) ==
    Iterate(SubstituteBody, [bytes |-> bytes, top |-> top, i |-> 0, result |-> <<>>],
            Len(bytes)).result

\* the dictionary written in front is topPatterns.map(([_, code]) => code), i.e. the
\* second component of each entry, which is its count (stored in a Uint8Array), then 0xFF
encodeFrequentPatterns(bytes) ==
    LET top        == TopPatterns(bytes)
        ws         == AllWindows(bytes)
        dictionary == [k \in 1..Len(top) |-> PatternCount(ws, top[k]) % 256] \o <<255>>
    IN  concatenateArrays(dictionary, Substitute(bytes, top))

\* the dictionary-reading while loop: dictEnd is the index of the first 0xFF, or the
\* length when there is none
DictEnd(compressed) ==
    IF \E k \in 1..Len(compressed) : compressed[k] = 255
    THEN (CHOOSE k \in 1..Len(compressed) :
            compressed[k] = 255 /\ \A j \in 1..(k - 1) : compressed[j] # 255) - 1
    ELSE Len(compressed)

\* the decoding for loop, from dictEnd + 1: a byte in 0xA0..0xAF becomes three zeros
decodeFrequentPatterns(compressed) ==
    LET from == DictEnd(compressed) + 1
    IN  Flatten([k \in 1..(IF from < Len(compressed) THEN Len(compressed) - from ELSE 0) |->
                    IF compressed[from + k] >= 160 /\ compressed[from + k] <= 175
                    THEN <<0, 0, 0>>
                    ELSE <<compressed[from + k]>>])

\* delta = [bytes[0]], then (bytes[i] - bytes[i-1]) & 0xFF; new Uint8Array(delta)
\* stores the undefined bytes[0] of an empty input as 0
DeltaEncode(bytes) ==
    [k \in 1..(IF Len(bytes) = 0 THEN 1 ELSE Len(bytes)) |->
        IF k = 1 THEN ByteOr0(bytes, 0) ELSE (bytes[k] - bytes[k - 1]) % 256]

compressBinary(bytes) == encodeFrequentPatterns(DeltaEncode(bytes))

\* the for loop of decompressBinary: bytes.push((bytes[i-1] + delta[i]) & 0xFF)
DeltaDecodeBody(s) ==
    IF s.i >= Len(s.delta) THEN s
    ELSE [s EXCEPT !.bytes = Append(s.bytes, (s.bytes[s.i] + s.delta[s.i + 1]) % 256),
                   !.i = s.i + 1]

decompressBinary(compressed) ==
    LET delta == decodeFrequentPatterns(compressed)
    IN  Iterate(DeltaDecodeBody, [delta |-> delta, i |-> 1, bytes |-> <<ByteOr0(delta, 0)>>],
                Len(delta)).bytes

compressImageData(bytes) == compressBinary(bytes)

decompressImageData(compressed) == decompressBinary(compressed)

(***************************************************************************)
(* Audio mode: 16-bit little-endian delta, then the binary path            *)
(***************************************************************************)
\* the for loop of compressAudioData, i = 2, 4, ...: the difference of the 16-bit
\* little-endian sample at i and the one before it, low byte first
AudioDeltaBody(s) ==
    IF s.i >= Len(s.bytes) THEN s
    ELSE LET sample == s.bytes[s.i + 1] + 256 * ByteOr0(s.bytes, s.i + 1)
             prev   == s.bytes[s.i - 1] + 256 * s.bytes[s.i]
             delta  == (sample - prev) % 65536
         IN  [s EXCEPT !.result = s.result \o <<delta % 256, delta \div 256>>,
                       !.i = s.i + 2]

compressAudioData(bytes) ==
    compressBinary(
        Iterate(AudioDeltaBody,
                [bytes |-> bytes, i |-> 2, result |-> <<ByteOr0(bytes, 0), ByteOr0(bytes, 1)>>],
                Len(bytes)).result)

\* the for loop of decompressAudioData; result[i-1] can be the undefined delta[1]
AudioUndeltaBody(s) ==
    IF s.i >= Len(s.delta) THEN s
    ELSE LET deltaVal == s.delta[s.i + 1] + 256 * ByteOr0(s.delta, s.i + 1)
             prev     == s.result[s.i - 1] + 256 * s.result[s.i]
             sample   == (prev + deltaVal) % 65536
         IN  [s EXCEPT !.result = s.result \o <<sample % 256, sample \div 256>>,
                       !.i = s.i + 2]

decompressAudioData(compressed) ==
    LET delta == decompressBinary(compressed)
    IN  Iterate(AudioUndeltaBody,
                [delta |-> delta, i |-> 2, result |-> <<ByteOr0(delta, 0), ByteOr0(delta, 1)>>],
                Len(delta)).result

(***************************************************************************)
(* compress / decompress                                                   *)
(***************************************************************************)
\* data is what the pipeline passes: a Uint8Array
compress(data, dataType) ==
    LET compressed ==
            CASE dataType = "text"  -> compressText([kind |-> "bytes", val |-> data])
              [] dataType = "image" -> compressImageData(data)
              [] dataType = "audio" -> compressAudioData(data)
              [] OTHER              -> compressBinary(data)
    IN  runLengthEncode(compressed)

\* the text branch returns a string, the others a Uint8Array
decompress(data, dataType) ==
    LET decompressed == runLengthDecode(data)
    IN  CASE dataType = "text"  -> decompressText(decompressed)
          [] dataType = "image" -> [kind |-> "bytes", val |-> decompressImageData(decompressed)]
          [] dataType = "audio" -> [kind |-> "bytes", val |-> decompressAudioData(decompressed)]
          [] OTHER              -> [kind |-> "bytes", val |-> decompressBinary(decompressed)]

(***************************************************************************)
(* FEC engine (class HMQCECC)                                              *)
(***************************************************************************)
messageLength == 223

codewordLength == 255

parityLength == 32

RECURSIVE BitXor(_, _)
\* a ^ b on non-negative integers
BitXor(a, b) ==
    IF a = 0 THEN b
    ELSE IF b = 0 THEN a
    ELSE ((a + b) % 2) + 2 * BitXor(a \div 2, b \div 2)

\* one iteration of the for loop of generateGeneratorPolynomial: newGp is gp times
\* (x + 1) with ^ as addition; gp is declared const, so the assignment gp = newGp
\* throws TypeError and gp stays as it was
GeneratorBody(s) ==
    IF s.error # "none" \/ s.i >= parityLength THEN s
    ELSE LET newGp == [j \in 1..(Len(s.gp) + 1) |->
                         BitXor(ByteOr0(s.gp, j - 1), ByteOr0(s.gp, j - 2))]
         IN  [s EXCEPT !.newGp = newGp, !.error = "TypeError"]

\* generateGeneratorPolynomial(): the array it returns, or the error it throws
generateGeneratorPolynomial ==
    LET done == Iterate(GeneratorBody,
                        [gp |-> <<1>>, newGp |-> <<>>, i |-> 0, error |-> "none"], parityLength)
    IN  IF done.error # "none" THEN [kind |-> done.error]
        ELSE [kind |-> "bytes", val |-> done.gp]

\* new HMQCECC(): the instance, or the error the constructor throws
NewHMQCECC ==
    IF generateGeneratorPolynomial.kind # "bytes"
    THEN [kind |-> generateGeneratorPolynomial.kind]
    ELSE [kind |-> "instance", symbolSize |-> 8, messageLength |-> messageLength,
          codewordLength |-> codewordLength, parityLength |-> parityLength,
          generatorPolynomial |-> generateGeneratorPolynomial.val]

\* splitIntoBlocks without the padding branch: a short last block is pushed as it is
Mut_splitIntoBlocks(data) ==
    LET blockSize == messageLength
        count     == (Len(data) + blockSize - 1) \div blockSize
    IN  [b \in 1..count |-> Slice(data, (b - 1) * blockSize, b * blockSize)]

\* splitIntoBlocks: blocks of messageLength bytes, the last one zero-padded
splitIntoBlocks(data) ==
    LET blockSize == messageLength
        count     == (Len(data) + blockSize - 1) \div blockSize
    IN  [b \in 1..count |->
            LET block == Slice(data, (b - 1) * blockSize, b * blockSize)
            IN  IF Len(block) < blockSize
                THEN [k \in 1..blockSize |-> ByteOr0(block, k - 1)]
                ELSE block]

\* extractBlocks: chunks of codewordLength bytes, the last one as long as what is left
extractBlocks(encodedData) ==
    LET blockSize == codewordLength
        count     == (Len(encodedData) + blockSize - 1) \div blockSize
    IN  [b \in 1..count |-> Slice(encodedData, (b - 1) * blockSize, b * blockSize)]

\* the loop of rsEncodeBlock over i, on the working copy codeword; a write past the
\* end of the Uint8Array is ignored
ParityBody(s) ==
    IF s.i >= s.mlen THEN s
    ELSE LET feedback == BitXor(s.codeword[s.i + 1], ByteOr0(s.codeword, s.mlen))
         IN  IF feedback # 0
             THEN [s EXCEPT !.codeword = [k \in 1..Len(s.codeword) |->
                                            IF k - 1 >= s.i + 1 /\ k - 1 <= s.i + parityLength
                                            THEN BitXor(s.codeword[k], feedback)
                                            ELSE s.codeword[k]],
                            !.i = s.i + 1]
             ELSE [s EXCEPT !.i = s.i + 1]

\* rsEncodeBlock(message): the parity symbols, codeword.slice(message.length)
rsEncodeBlock(message) ==
    LET codeword == [k \in 1..codewordLength |-> ByteOr0(message, k - 1)]
    IN  Slice(Iterate(ParityBody, [codeword |-> codeword, i |-> 0, mlen |-> Len(message)],
                      Len(message)).codeword,
              Len(message), codewordLength)

\* encode(data): each block followed by its parity, in block order
encode(data) ==
    LET blocks == splitIntoBlocks(data)
    IN  Flatten([b \in 1..Len(blocks) |-> blocks[b] \o rsEncodeBlock(blocks[b])])

\* the inner loop of the syndrome calculation: sum ^= codeword[j] for every j
XorBody(s) ==
    IF s.j >= Len(s.codeword) THEN s
    ELSE [s EXCEPT !.sum = BitXor(s.sum, s.codeword[s.j + 1]), !.j = s.j + 1]

XorAll(codeword) ==
    Iterate(XorBody, [codeword |-> codeword, j |-> 0, sum |-> 0], Len(codeword)).sum

\* syndromes that depend on i: only the first 20 see the received symbols
Mut_Syndromes(codeword) ==
    LET sum == XorAll(codeword)
    IN  [i \in 1..parityLength |-> IF i <= 20 THEN sum ELSE 0]

\* syndromes[i] for i < parityLength: the loop body does not depend on i
Syndromes(codeword) ==
    LET sum == XorAll(codeword)
    IN  [i \in 1..parityLength |-> sum]

\* rsDecodeBlock(codeword): the results it can return.  uncorrectable is FALSE where
\* the returned object has no such property.  In the correcting branch every position
\* is flipped or not by Math.random() < 0.1: any set of positions can be flipped
rsDecodeBlock(codeword) ==
    LET syndromes == Syndromes(codeword)
        errors    == Cardinality({i \in 1..parityLength : syndromes[i] # 0})
    IN  IF errors = 0
        THEN {[data |-> Slice(codeword, 0, messageLength), errors |-> 0,
               uncorrectable |-> FALSE]}
        ELSE IF 2 * errors <= parityLength
        THEN {[data |-> Slice([k \in 1..Len(codeword) |->
                                  IF k \in flipped THEN BitXor(codeword[k], 255)
                                  ELSE codeword[k]], 0, messageLength),
               errors |-> errors, uncorrectable |-> FALSE]
              : flipped \in SUBSET (1..Len(codeword))}
        ELSE {[data |-> Slice(codeword, 0, messageLength), errors |-> errors,
               uncorrectable |-> TRUE]}

RECURSIVE BlockResults(_)
\* the sequences of block results the forEach of decode can see
BlockResults(blocks) ==
    IF blocks = <<>> THEN {<<>>}
    ELSE {<<r>> \o rest : r \in rsDecodeBlock(Head(blocks)), rest \in BlockResults(Tail(blocks))}

RECURSIVE SumErrors(_)
SumErrors(results) ==
    IF results = <<>> THEN 0 ELSE Head(results).errors + SumErrors(Tail(results))

\* the object decode(data) returns, given what rsDecodeBlock returned for each block:
\* it has the properties data, correctedErrors and success, and no other
DecodeResult(results) ==
    [data            |-> Flatten([b \in 1..Len(results) |-> results[b].data]),
     correctedErrors |-> SumErrors(results),
     success         |-> 2 * SumErrors(results) <= parityLength]

\* decode(data): the results it can return
decode(data) == {DecodeResult(results) : results \in BlockResults(extractBlocks(data))}

(***************************************************************************)
(* Metadata codec and matrix sizing (class HMQCCore)                       *)
(***************************************************************************)
\* this.version = '3.0', as character codes
version == <<51, 46, 48>>

moduleSize == 4

maxSize == 4096

\* Numbers of the header are kept as two base-65536 limbs, value = hi * 65536 + lo,
\* so that the whole unsigned 32-bit range and the sizes just past it are representable
Limb == 65536

Wide(n) == [hi |-> n \div Limb, lo |-> n % Limb]

\* the magic number 0x484D5143 ("HMQC")
MagicNumber == [hi |-> 18509, lo |-> 20803]

\* ToUint32 of a number: what DataView.setUint32 stores and what << and | work on
ToUint32(w) == [hi |-> w.hi % Limb, lo |-> w.lo]

RECURSIVE BitOr(_, _)
\* a | b on non-negative integers
BitOr(a, b) ==
    IF a = 0 THEN b
    ELSE IF b = 0 THEN a
    ELSE (IF a % 2 = 1 \/ b % 2 = 1 THEN 1 ELSE 0) + 2 * BitOr(a \div 2, b \div 2)

\* (a << 8) | b on 32-bit patterns
ShiftOr(a, b) ==
    LET sh == [hi |-> (a.hi * 256 + a.lo \div 256) % Limb, lo |-> (a.lo * 256) % Limb]
    IN  [hi |-> BitOr(sh.hi, ToUint32(b).hi), lo |-> BitOr(sh.lo, b.lo)]

\* w * k for a small k
WideTimes(w, k) == [hi |-> w.hi * k + (w.lo * k) \div Limb, lo |-> (w.lo * k) % Limb]

\* view.setUint32(offset, w): four bytes, big-endian
Uint32Bytes(w) ==
    LET u == ToUint32(w)
    IN  <<u.hi \div 256, u.hi % 256, u.lo \div 256, u.lo % 256>>

\* view.getUint32(offset)
getUint32(bytes, offset) ==
    [hi |-> bytes[offset + 1] * 256 + bytes[offset + 2],
     lo |-> bytes[offset + 3] * 256 + bytes[offset + 4]]

\* str.split('.'): one step reads one character
SplitBody(s) ==
    IF s.i >= Len(s.str) THEN s
    ELSE IF s.str[s.i + 1] = 46
         THEN [s EXCEPT !.parts = Append(s.parts, s.cur), !.cur = <<>>, !.i = s.i + 1]
         ELSE [s EXCEPT !.cur = Append(s.cur, s.str[s.i + 1]), !.i = s.i + 1]

SplitOnDot(str) ==
    LET s == Iterate(SplitBody, [str |-> str, i |-> 0, parts |-> <<>>, cur |-> <<>>], Len(str))
    IN  Append(s.parts, s.cur)

\* parseInt(v) of a string of decimal digits; NaN, which << and | treat as 0, when
\* the string does not start with a digit
ParseIntBody(s) ==
    IF s.i >= Len(s.str) \/ s.str[s.i + 1] < 48 \/ s.str[s.i + 1] > 57 THEN s
    ELSE [s EXCEPT !.value = 10 * s.value + (s.str[s.i + 1] - 48), !.i = s.i + 1]

ParseInt(str) == Iterate(ParseIntBody, [str |-> str, i |-> 0, value |-> 0], Len(str)).value

\* reduce((a, b) => (a << 8) | b) without an initial value
PackBody(s) ==
    IF s.i >= Len(s.parts) THEN s
    ELSE [s EXCEPT !.acc = ShiftOr(s.acc, Wide(s.parts[s.i + 1])), !.i = s.i + 1]

\* this.version.split('.').map(v => parseInt(v)).reduce(...)
PackVersion(str) ==
    LET parts == [k \in 1..Len(SplitOnDot(str)) |-> ParseInt(SplitOnDot(str)[k])]
    IN  Iterate(PackBody, [parts |-> parts, i |-> 1, acc |-> Wide(parts[1])], Len(parts)).acc

TypeCode(dataType) ==
    IF dataType = "text" THEN 1
    ELSE IF dataType = "image" THEN 2
    ELSE IF dataType = "audio" THEN 3
    ELSE 4

\* generateMetadata(dataType, originalSize, compressedSize); timestamp is
\* Date.now() / 1000 | 0 and id is Math.random() * 0xFFFFFFFF | 0 of that call
generateMetadata(dataType, originalSize, compressedSize, timestamp, id) ==
    Uint32Bytes(MagicNumber) \o Uint32Bytes(PackVersion(version))
    \o Uint32Bytes(Wide(TypeCode(dataType))) \o Uint32Bytes(originalSize)
    \o Uint32Bytes(compressedSize) \o Uint32Bytes(timestamp) \o Uint32Bytes(id)
    \o Uint32Bytes(Wide(0))

\* one hexadecimal digit, upper case, as a character code
HexDigit(d) == IF d < 10 THEN 48 + d ELSE 55 + d

\* w.toString(16).toUpperCase() as character codes: eight digits less the leading zeros
HexUpper(w) ==
    LET all   == [k \in 1..8 |->
                     IF k <= 4 THEN HexDigit((w.hi \div (16 ^ (4 - k))) % 16)
                     ELSE HexDigit((w.lo \div (16 ^ (8 - k))) % 16)]
        first == IF \A k \in 1..8 : all[k] = 48 THEN 8
                 ELSE CHOOSE k \in 1..8 : all[k] # 48 /\ \A j \in 1..(k - 1) : all[j] = 48
    IN  SubSeq(all, first, 8)

\* the template `${a}.${b}.${c}` of (v >> 16) & 0xFF, (v >> 8) & 0xFF and v & 0xFF
VersionString(w) ==
    DecimalDigits(w.hi % 256) \o <<46>>
    \o DecimalDigits(w.lo \div 256) \o <<46>> \o DecimalDigits(w.lo % 256)

TypeNames == <<"unknown", "text", "image", "audio", "binary">>

\* parseMetadata(bytes): the DataView covers bytes.buffer, which is the 32 bytes of the
\* slice it is called with; a read past the end of the buffer throws RangeError
parseMetadata(bytes) ==
    IF Len(bytes) < 28 THEN [error |-> "RangeError"]
    ELSE [error          |-> "none",
          magic          |-> HexUpper(getUint32(bytes, 0)),
          version        |-> VersionString(getUint32(bytes, 4)),
          dataType       |-> IF getUint32(bytes, 8).hi = 0
                                /\ getUint32(bytes, 8).lo < Len(TypeNames)
                             THEN TypeNames[getUint32(bytes, 8).lo + 1]
                             ELSE "unknown",
          originalSize   |-> getUint32(bytes, 12),
          compressedSize |-> getUint32(bytes, 16),
          timestamp      |-> WideTimes(getUint32(bytes, 20), 1000),
          id             |-> getUint32(bytes, 24)]

RECURSIVE CeilSqrtIn(_, _, _)
\* the least s in lo..hi with s * s >= m
CeilSqrtIn(m, lo, hi) ==
    IF lo >= hi THEN lo
    ELSE LET mid == (lo + hi) \div 2
         IN  IF mid * mid >= m THEN CeilSqrtIn(m, lo, mid) ELSE CeilSqrtIn(m, mid + 1, hi)

\* Math.ceil(Math.sqrt(m)); the search stays below the root of the largest integer
CeilSqrt(m) == CeilSqrtIn(m, 0, IF m < 46340 THEN m ELSE 46340)

\* calculateMatrixSize without the Math.max(gridSize, 256)
Mut_calculateMatrixSize(dataLength) ==
    LET modulesNeeded == (dataLength * 8 + 31) \div 32
        gridSize      == CeilSqrt(modulesNeeded) + 50
    IN  IF gridSize < maxSize THEN gridSize ELSE maxSize

calculateMatrixSize(dataLength) ==
    LET bitsPerModule == 32
        modulesNeeded == (dataLength * 8 + bitsPerModule - 1) \div bitsPerModule
        gridSize      == CeilSqrt(modulesNeeded) + 50
        atLeast       == IF gridSize > 256 THEN gridSize ELSE 256
    IN  IF atLeast < maxSize THEN atLeast ELSE maxSize

(***************************************************************************)
(* Layout, rendering and sampling (HMQCCore, HMQCDecoder.extractModules)   *)
(***************************************************************************)
\* const markerSize of generateMarkers
markerSize == 20

\* createMarkerPattern(): rows of the finder pattern
createMarkerPattern ==
    << <<1, 1, 1, 1, 1, 1, 1>>,
       <<1, 0, 0, 0, 0, 0, 1>>,
       <<1, 0, 1, 1, 1, 0, 1>>,
       <<1, 0, 1, 0, 1, 0, 1>>,
       <<1, 0, 1, 1, 1, 0, 1>>,
       <<1, 0, 0, 0, 0, 0, 1>>,
       <<1, 1, 1, 1, 1, 1, 1>> >>

generateMarkers(size) ==
    [k \in 1..4 |->
        [x       |-> IF k \in {2, 4} THEN size - markerSize ELSE 0,
         y       |-> IF k \in {3, 4} THEN size - markerSize ELSE 0,
         size    |-> markerSize,
         pattern |-> createMarkerPattern]]

\* bytesToColorModules' loop body with a padding that depends on the stream: the
\* pattern is shifted by the length of the stream
Mut_ModuleAt(bytes, i) ==
    LET byteIndex == i * 4
    IN  IF byteIndex < Len(bytes)
        THEN [r |-> ByteOr0(bytes, byteIndex),
              g |-> ByteOr0(bytes, byteIndex + 1),
              b |-> ByteOr0(bytes, byteIndex + 2),
              a |-> IF ByteOr0(bytes, byteIndex + 3) = 0 THEN 255
                    ELSE ByteOr0(bytes, byteIndex + 3)]
        ELSE [r |-> (i * 7 + Len(bytes)) % 256, g |-> (i * 13) % 256,
              b |-> (i * 19) % 256, a |-> 255]

\* the body of the loop of bytesToColorModules for module i; a missing byte is
\* undefined, and undefined or 0 in the alpha position becomes 255
ModuleAt(bytes, i) ==
    LET byteIndex == i * 4
    IN  IF byteIndex < Len(bytes)
        THEN [r |-> ByteOr0(bytes, byteIndex),
              g |-> ByteOr0(bytes, byteIndex + 1),
              b |-> ByteOr0(bytes, byteIndex + 2),
              a |-> IF ByteOr0(bytes, byteIndex + 3) = 0 THEN 255
                    ELSE ByteOr0(bytes, byteIndex + 3)]
        ELSE [r |-> (i * 7) % 256, g |-> (i * 13) % 256, b |-> (i * 19) % 256, a |-> 255]

bytesToColorModules(bytes, width, height) ==
    [k \in 1..(width * height) |-> ModuleAt(bytes, k - 1)]

colorModulesToBytes(modules) ==
    Flatten([k \in 1..Len(modules) |->
                <<modules[k].r, modules[k].g, modules[k].b, modules[k].a>>])

\* this.colors.background
background == <<10, 10, 10>>

\* source-over of a channel c with alpha a / 255 on the opaque background; how the
\* quotient is rounded is up to the canvas implementation
Blend(c, a, bg, rounding) ==
    IF rounding = "down" THEN (c * a + bg * (255 - a)) \div 255
    ELSE (c * a + bg * (255 - a) + 127) \div 255

\* drawMarkers: whether it paints the module cell (mx, my) white
MarkerPaints(matrixSize, mx, my) ==
    \E k \in 1..4 :
        LET marker == generateMarkers(matrixSize)[k]
            dx     == mx - marker.x
            dy     == my - marker.y
        IN  /\ dx \in 0..(Len(marker.pattern[1]) - 1)
            /\ dy \in 0..(Len(marker.pattern) - 1)
            /\ marker.pattern[dy + 1][dx + 1] = 1

\* renderToCanvas: the canvas is kept as what was drawn on it, the stream whose
\* modules were painted and the side, with the rounding its blending used
renderToCanvas(bytes, matrixSize, rounding) ==
    [width      |-> matrixSize * moduleSize,
     height     |-> matrixSize * moduleSize,
     matrixSize |-> matrixSize,
     bytes      |-> bytes,
     rounding   |-> rounding]

\* the pixel (px, py) of a rendered canvas, as getImageData returns it: the
\* background, then the module of that cell drawn over it, then the markers
CanvasPixel(canvas, px, py) ==
    LET mx     == px \div moduleSize
        my     == py \div moduleSize
        module == bytesToColorModules(canvas.bytes, canvas.matrixSize,
                                      canvas.matrixSize)[my * canvas.matrixSize + mx + 1]
    IN  IF MarkerPaints(canvas.matrixSize, mx, my)
        THEN [r |-> 255, g |-> 255, b |-> 255, a |-> 255]
        ELSE [r |-> Blend(module.r, module.a, background[1], canvas.rounding),
              g |-> Blend(module.g, module.a, background[2], canvas.rounding),
              b |-> Blend(module.b, module.a, background[3], canvas.rounding),
              a |-> 255]

\* findMarkerCenter ignores the image
findMarkerCenter(searchArea) == [x |-> searchArea.x + 10, y |-> searchArea.y + 10]

detectMarkers(width, height) ==
    LET corners == << [x |-> 0,          y |-> 0,           searchArea |-> 50],
                      [x |-> width - 50, y |-> 0,           searchArea |-> 50],
                      [x |-> 0,          y |-> height - 50, searchArea |-> 50],
                      [x |-> width - 50, y |-> height - 50, searchArea |-> 50] >>
    IN  [k \in 1..4 |-> findMarkerCenter(corners[k])]

\* |v|
Abs(v) == IF v < 0 THEN -v ELSE v

\* extractModules of HMQCDecoder: modulePx = moduleSize * (actualMarkerSize /
\* expectedMarkerSize) is the fraction actualMarkerSize / 20, so that
\* floor(min(width, height) / modulePx) and floor(x * modulePx) are the integer
\* quotients below (they agree with the double arithmetic for the sides of MatrixSizes)
extractModules(image, markers) ==
    LET expectedMarkerSize == 20 * moduleSize
        actualMarkerSize   == Abs(markers[2].x - markers[1].x)
        shorter            == IF image.width < image.height THEN image.width
                              ELSE image.height
        gridSize           == (shorter * expectedMarkerSize)
                              \div (moduleSize * actualMarkerSize)
    IN  [k \in 1..(gridSize * gridSize) |->
            LET x  == (k - 1) % gridSize
                y  == (k - 1) \div gridSize
                px == (x * moduleSize * actualMarkerSize) \div expectedMarkerSize
                py == (y * moduleSize * actualMarkerSize) \div expectedMarkerSize
            IN  CanvasPixel(image, px, py)]

(***************************************************************************)
(* A harness that is not running stays in its idle state                   *)
(***************************************************************************)
CompressIdle ==
    /\ cpc = "idle" /\ cx = <<>> /\ ct = "binary" /\ cz = <<>>
    /\ cout = [kind |-> "none", val |-> <<>>]

FecIdle ==
    /\ fpc = "idle" /\ fdata = <<>> /\ fcode = <<>> /\ frecv = <<>> /\ fblk = <<>>
    /\ fres = [data |-> <<>>, correctedErrors |-> 0, success |-> TRUE]

HeaderIdle ==
    /\ hpc = "idle" /\ htype = "binary" /\ horig = [hi |-> 0, lo |-> 0] /\ hcomp = [hi |-> 0, lo |-> 0]
    /\ hsent = <<>> /\ hbytes = <<>> /\ hmeta = [error |-> "none"]

SizingIdle ==
    /\ mpc = "idle" /\ mm = 0 /\ mn = 0 /\ msm = 0 /\ msn = 0

\* no file, no pending read or load, nothing drawn or shown
NoFile == [kind |-> "none"]

NoCanvas == [kind |-> "none"]

NoRun == [kind |-> "none"]

NoResult == [kind |-> "none"]

\* the encoder and the decoder as their constructors leave them
PipelineIdle ==
    /\ selectedFile = NoFile /\ encDataType = "undefined" /\ encIsProcessing = FALSE /\ encodeBtnDisabled = FALSE
    /\ encRead = NoFile /\ codeCanvas = NoCanvas /\ encStatus = "none" /\ encRun = NoRun
    /\ encCount = [selects |-> 0, runs |-> 0, pending |-> 0]
    /\ scannedFile = NoFile /\ decIsProcessing = FALSE /\ decodeBtnDisabled = FALSE /\ decLoad = NoFile
    /\ decFec = NoResult /\ decMetadata = NoResult /\ decContent = NoResult
    /\ decStatus = [type |-> "none", error |-> "none"] /\ decRun = NoRun
    /\ decCount = [drops |-> 0, runs |-> 0, pending |-> 0]

EccIdle == eccInstance = NoResult

LocateIdle == locMarkers = <<>> /\ locModules = NoResult

LayoutIdle ==
    /\ lpc = "idle" /\ lbytes = <<>> /\ lw = 0 /\ lh = 0
    /\ lmodules = <<>> /\ lback = <<>> /\ lcanvas = NoCanvas

(***************************************************************************)
(* Compression harness: a payload is compressed, then decompressed         *)
(***************************************************************************)
\* the payloads of the model: at most MaxSegs runs, each of one byte of ByteAlphabet
RECURSIVE Payloads(_)
Payloads(n) ==
    IF n = 0 THEN {<<>>}
    ELSE LET shorter == Payloads(n - 1)
         IN  shorter \cup {p \o Rep(b, r) : p \in shorter, b \in ByteAlphabet, r \in RunLens}

CompressInit ==
    /\ cpc = "input"
    /\ cx \in Payloads(MaxSegs)
    /\ ct \in DataTypes
    /\ cz = <<>>
    /\ cout = [kind |-> "none", val |-> <<>>]
    /\ FecIdle /\ HeaderIdle /\ SizingIdle /\ PipelineIdle /\ LayoutIdle /\ LocateIdle /\ EccIdle

Compress ==
    /\ cpc = "input"
    /\ cz' = compress(cx, ct)
    /\ cpc' = "compressed"
    /\ UNCHANGED <<cx, ct, cout, fvars, hvars, mvars, evars, dvars, lvars, kvars, gvars>>

Decompress ==
    /\ cpc \in {"compressed", "received"}
    /\ cout' = decompress(cz, ct)
    /\ cpc' = "decompressed"
    /\ UNCHANGED <<cx, ct, cz, fvars, hvars, mvars, evars, dvars, lvars, kvars, gvars>>

CompressNext == Compress \/ Decompress

SpecCompress == CompressInit /\ [][CompressNext]_vars

\* the bytes a returned value stands for: a Uint8Array's elements, a string's UTF-8
\* encoding (the strings of this model hold ASCII and U+FFFD only)
BytesOf(value) ==
    IF value.kind = "bytes" THEN value.val
    ELSE Flatten([k \in 1..Len(value.val) |->
                     IF value.val[k] < 128 THEN <<value.val[k]>> ELSE <<239, 191, 189>>])

\* C1: for every byte sequence x and every content type t, decompress(compress(x, t), t)
\* equals x (a returned string counts as equal to x when its UTF-8 encoding is x)
RoundTripIdentity ==
    cpc = "decompressed" => BytesOf(cout) = cx

(***************************************************************************)
(* FEC harness: data is encoded, symbols of one codeword are changed in    *)
(* transit, and the received stream is decoded                             *)
(***************************************************************************)
MaxFecBlocks == 2                    \* an input of the FEC harness fills at most this many blocks

FecFills == {0, 255}                 \* the byte an input is filled with

\* input lengths: one short of full blocks (the last block is padded), and full blocks
FecLengths == {b * messageLength + d : b \in 1..MaxFecBlocks, d \in {-1, 0}}

\* the inputs: n bytes of fill, or n zero bytes but for a 1 at one position
FecInputs ==
    {[k \in 1..n |-> fill] : n \in FecLengths, fill \in FecFills}
    \cup {[k \in 1..n |-> IF k = pos THEN 1 ELSE 0] : n \in FecLengths, pos \in {1, 100}}

ErrorCounts == {1, 10, 16, 17, 20}       \* how many symbols of a codeword are changed

ErrorStrides == {1, 7}                   \* distance between two changed symbols

ErrorStarts == {0, 120}                  \* 0-based position of the first changed symbol

ErrorMasks == {1, 255}                   \* a changed symbol is the old one ^ mask

\* the positions (1-based, in the stream) of e changed symbols of codeword b
ErrorPositions(b, e, start, stride) ==
    {(b - 1) * codewordLength + start + k * stride + 1 : k \in 0..(e - 1)}

FecInit ==
    /\ fpc = "input"
    /\ fdata \in FecInputs
    /\ fcode = <<>> /\ frecv = <<>> /\ fblk = <<>>
    /\ fres = [data |-> <<>>, correctedErrors |-> 0, success |-> TRUE]
    /\ CompressIdle /\ HeaderIdle /\ SizingIdle /\ PipelineIdle /\ LayoutIdle /\ LocateIdle /\ EccIdle

FecEncode ==
    /\ fpc = "input"
    /\ fcode' = encode(fdata)
    /\ frecv' = encode(fdata)
    /\ fpc' = "encoded"
    /\ UNCHANGED <<fdata, fblk, fres, cvars, hvars, mvars, evars, dvars, lvars, kvars, gvars>>

\* the channel changes e symbols of one codeword
FecCorrupt ==
    /\ fpc = "encoded"
    /\ \E b \in 1..(Len(fcode) \div codewordLength), e \in ErrorCounts,
          start \in ErrorStarts, stride \in ErrorStrides, mask \in ErrorMasks :
          LET changed == ErrorPositions(b, e, start, stride)
          IN  /\ changed \subseteq
                    ((b - 1) * codewordLength + 1)..(b * codewordLength)
              /\ frecv' = [k \in 1..Len(fcode) |->
                              IF k \in changed THEN BitXor(fcode[k], mask) ELSE fcode[k]]
    /\ fpc' = "corrupted"
    /\ UNCHANGED <<fdata, fcode, fblk, fres, cvars, hvars, mvars, evars, dvars, lvars, kvars, gvars>>

FecDecode ==
    /\ fpc \in {"encoded", "corrupted"}
    /\ \E results \in BlockResults(extractBlocks(frecv)) :
          /\ fblk' = results
          /\ fres' = DecodeResult(results)
    /\ fpc' = "decoded"
    /\ UNCHANGED <<fdata, fcode, frecv, cvars, hvars, mvars, evars, dvars, lvars, kvars, gvars>>

FecNext == FecEncode \/ FecCorrupt \/ FecDecode

SpecFEC == FecInit /\ [][FecNext]_vars

\* the positions where the received stream differs from the encoded one, and the
\* codeword (1-based) they lie in
ChangedSymbols == {k \in 1..Len(fcode) : frecv[k] # fcode[k]}

ChangedBlock == ((CHOOSE k \in ChangedSymbols : TRUE) - 1) \div codewordLength + 1

\* message block b (1-based) of the input, zero-padded to messageLength
MessageBlock(b) == [k \in 1..messageLength |-> ByteOr0(fdata, (b - 1) * messageLength + k - 1)]

\* C3: a codeword of FEC encode with exactly e changed symbols, 1 <= e <= 16, decodes
\* to the original message with an error count of e and is not flagged uncorrectable
CorrectsUpToCapacity ==
    (fpc = "decoded" /\ Cardinality(ChangedSymbols) \in 1..(parityLength \div 2)) =>
        /\ fblk[ChangedBlock].data = MessageBlock(ChangedBlock)
        /\ fblk[ChangedBlock].errors = Cardinality(ChangedSymbols)
        /\ fblk[ChangedBlock].uncorrectable = FALSE

\* C4: a codeword of FEC encode with more than 16 changed symbols is flagged
\* uncorrectable, and its message portion is returned as received
FlagsBeyondCapacity ==
    (fpc = "decoded" /\ Cardinality(ChangedSymbols) > parityLength \div 2) =>
        /\ fblk[ChangedBlock].uncorrectable = TRUE
        /\ fblk[ChangedBlock].data =
              Slice(extractBlocks(frecv)[ChangedBlock], 0, messageLength)

\* C6: every codeword m || parity(m) of FEC encode, received unchanged, has all-zero
\* syndromes and decodes with errors = 0, no uncorrectable flag and data = m
EncodedCodewordIsClean ==
    (fpc = "decoded" /\ frecv = fcode) =>
        \A b \in 1..Len(fblk) :
            /\ \A i \in 1..parityLength : Syndromes(extractBlocks(frecv)[b])[i] = 0
            /\ fblk[b].errors = 0
            /\ fblk[b].uncorrectable = FALSE
            /\ fblk[b].data = MessageBlock(b)

\* C7: FEC encode of n > 0 bytes outputs ceil(n / 223) codewords of 255 symbols in
\* block order; codeword i starts with input bytes [223 i, 223 i + 223) (zero-padded
\* in the last block), followed by the 32 parity symbols of that block
EncodeKeepsBlockLayout ==
    (fpc = "encoded" /\ Len(fdata) > 0) =>
        LET count == (Len(fdata) + messageLength - 1) \div messageLength
        IN  /\ Len(fcode) = count * codewordLength
            /\ \A b \in 1..count :
                  /\ \A k \in 1..messageLength :
                        fcode[(b - 1) * codewordLength + k] =
                            ByteOr0(fdata, (b - 1) * messageLength + k - 1)
                  /\ Slice(fcode, (b - 1) * codewordLength + messageLength,
                           b * codewordLength) = rsEncodeBlock(MessageBlock(b))

\* C7 witness: two codewords were emitted, the second from a padded block, and the
\* first carries parity symbols that are not all zero
EncodeLayoutWitness ==
    /\ fpc = "encoded"
    /\ Len(fdata) = 2 * messageLength - 1
    /\ Len(fcode) = 2 * codewordLength
    /\ \E k \in (messageLength + 1)..codewordLength : fcode[k] # 0

(***************************************************************************)
(* Header harness: a header is generated, possibly damaged in transit, and *)
(* parsed                                                                  *)
(***************************************************************************)
MaxSizeHi == 65536                   \* the upper limb of the sizes of the harness goes up to this

\* originalSize / compressedSize: small, around a byte and a limb boundary, the top of
\* the 32-bit range (hi = 65535), and past it
SizeSamples ==
    {Wide(0), Wide(5), Wide(255), Wide(256), Wide(Limb), Wide(16777216),
     [hi |-> 32768, lo |-> 0], [hi |-> 65535, lo |-> 65535], [hi |-> MaxSizeHi, lo |-> 5]}

TimestampSamples == {Wide(0), Wide(1793000000)}

IdSamples == {Wide(0), [hi |-> 65535, lo |-> 65534]}

HeaderInit ==
    /\ hpc = "input"
    /\ htype \in DataTypes
    /\ horig \in SizeSamples
    /\ hcomp \in SizeSamples
    /\ hsent = <<>> /\ hbytes = <<>> /\ hmeta = [error |-> "none"]
    /\ CompressIdle /\ FecIdle /\ SizingIdle /\ PipelineIdle /\ LayoutIdle /\ LocateIdle /\ EccIdle

HeaderGenerate ==
    /\ hpc = "input"
    /\ \E timestamp \in TimestampSamples, id \in IdSamples :
          /\ hsent' = generateMetadata(htype, horig, hcomp, timestamp, id)
          /\ hbytes' = generateMetadata(htype, horig, hcomp, timestamp, id)
    /\ hpc' = "generated"
    /\ UNCHANGED <<htype, horig, hcomp, hmeta, cvars, fvars, mvars, evars, dvars, lvars, kvars, gvars>>

\* the header reaches the parser with another first word, with another type code,
\* or cut short
HeaderDamage ==
    /\ hpc = "generated"
    /\ \/ \E word \in {Wide(0), Wide(1), [hi |-> 65535, lo |-> 65535]} :
             hbytes' = Uint32Bytes(word) \o Slice(hsent, 4, 32)
       \/ \E code \in {Wide(0), Wide(5), [hi |-> 1, lo |-> 2]} :
             hbytes' = Slice(hsent, 0, 8) \o Uint32Bytes(code) \o Slice(hsent, 12, 32)
       \/ hbytes' = Slice(hsent, 0, 16)
    /\ hpc' = "damaged"
    /\ UNCHANGED <<htype, horig, hcomp, hsent, hmeta, cvars, fvars, mvars, evars, dvars, lvars, kvars, gvars>>

HeaderParse ==
    /\ hpc \in {"generated", "damaged"}
    /\ hmeta' = parseMetadata(hbytes)
    /\ hpc' = "parsed"
    /\ UNCHANGED <<htype, horig, hcomp, hsent, hbytes, cvars, fvars, mvars, evars, dvars, lvars, kvars, gvars>>

HeaderNext == HeaderGenerate \/ HeaderDamage \/ HeaderParse

SpecHeader == HeaderInit /\ [][HeaderNext]_vars

\* C8: for every content type T and sizes a, b within 32-bit range,
\* parseMetadata(generateMetadata(T, a, b)) returns the version the encoder declares
\* ('3.0'), dataType T, originalSize a and compressedSize b
HeaderRoundTrip ==
    (hpc = "parsed" /\ hbytes = hsent /\ horig.hi < Limb /\ hcomp.hi < Limb) =>
        /\ hmeta.error = "none"
        /\ hmeta.version = version
        /\ hmeta.dataType = htype
        /\ hmeta.originalSize = horig
        /\ hmeta.compressedSize = hcomp

(***************************************************************************)
(* Sizing harness: the matrix side of two stream lengths                   *)
(***************************************************************************)
MaxSide == 5000                      \* the largest square root a sampled length is built from

SideSamples == {0, 1, 205, 206, 207, 1000, 4045, 4046, 4047, MaxSide}

\* stream lengths around 4 * s * s, where ceil(sqrt(ceil(n / 4))) steps from s to s + 1
LengthSamples ==
    {n \in {4 * s * s + d : s \in SideSamples, d \in {-4, -1, 0, 1, 4}} : n >= 0}

SizingInit ==
    /\ mpc = "input"
    /\ mm \in LengthSamples
    /\ mn \in LengthSamples
    /\ msm = 0 /\ msn = 0
    /\ CompressIdle /\ FecIdle /\ HeaderIdle /\ PipelineIdle /\ LayoutIdle /\ LocateIdle /\ EccIdle

SizeBoth ==
    /\ mpc = "input"
    /\ msm' = calculateMatrixSize(mm)
    /\ msn' = calculateMatrixSize(mn)
    /\ mpc' = "sized"
    /\ UNCHANGED <<mm, mn, cvars, fvars, hvars, evars, dvars, lvars, kvars, gvars>>

SizingNext == SizeBoth

SpecSizing == SizingInit /\ [][SizingNext]_vars

\* C10: calculateMatrixSize is monotone, calculateMatrixSize(m) <= calculateMatrixSize(n)
\* for stream lengths m <= n, and its result always lies in [256, 4096]
MatrixSizeMonotoneBounded ==
    mpc = "sized" =>
        /\ (mm <= mn => msm <= msn)
        /\ msm \in 256..4096
        /\ msn \in 256..4096

\* C10 witness: a longer stream got a strictly larger side, both inside the range,
\* from sides computed above the lower clamp and below the upper one
MatrixSizeWitness ==
    /\ mpc = "sized"
    /\ mm < mn
    /\ 256 < msm /\ msm < msn /\ msn < 4096


\* C9: parsing a 32-byte header whose first word differs from the magic signature
\* 0x484D5143 fails with BadMagic, so no header field of such a header is returned
BadMagicRejected ==
    (hpc = "parsed" /\ Len(hbytes) = 32 /\ getUint32(hbytes, 0) # MagicNumber) =>
        hmeta = [error |-> "BadMagic"]

(***************************************************************************)
(* The pipeline: an encoder page and a decoder page (HMQCEncoder,          *)
(* HMQCDecoder); the image the decoder is given is the download of the     *)
(* encoder's canvas, or a file that is no image                            *)
(***************************************************************************)
MaxSelects == 2                      \* files selected in the encoder

MaxEncodes == 1                      \* encodeFile runs that end

MaxDrops == 1                        \* files dropped on the decoder

MaxDecodes == 1                      \* decodeFile runs that end

\* the payload "a cat"
ACat == <<97, 32, 99, 97, 116>>

Mime(major, minor) == [major |-> major, minor |-> minor]

\* a File: the extension of its name, its type, its bytes
File(extension, type, data) ==
    [kind |-> "file", extension |-> extension, type |-> type, data |-> data]

FileSamples ==
    {File("txt", Mime("text", "plain"), ACat),
     File("png", Mime("image", "png"), ACat),
     File("wav", Mime("audio", "wav"), ACat),
     File("bin", Mime("", ""), <<0, 0, 0, 0, 0, 0, 160, 255>>)}

\* the files dropped on the decoder that are not a download of the canvas
ScanSamples == {File("txt", Mime("text", "plain"), ACat)}

\* the values of the #matrixSize input
MatrixSizes == {256, 264}

Roundings == {"down", "nearest"}

RunTimestamps == {Wide(1793000000)}

RunIds == {Wide(305419896)}

TextExtensions == {"txt", "md", "json", "xml", "csv", "html", "js", "css"}

\* detectDataType(file): mime.startsWith('text/') is a test of the major type
detectDataType(file) ==
    IF file.type.major = "text" \/ file.extension \in TextExtensions THEN "text"
    ELSE IF file.type.major = "image" THEN "image"
    ELSE IF file.type.major = "audio" THEN "audio"
    ELSE "binary"

\* readAsText followed by TextEncoder.encode: a byte below 128 is itself; a byte
\* that starts no UTF-8 sequence comes back as U+FFFD (the files read as text hold
\* no multi-byte sequences)
EncodeDecodedText(data) ==
    Flatten([k \in 1..Len(data) |->
                IF data[k] < 128 THEN <<data[k]>> ELSE <<239, 191, 189>>])

\* what readFile resolves with
readFile(read) == IF read.asText THEN EncodeDecodedText(read.file.data) ELSE read.file.data

\* the download of the canvas, as a File: a PNG holding the pixels of the canvas
CanvasDownload == [kind |-> "file", extension |-> "png", type |-> Mime("image", "png"),
                   image |-> codeCanvas, run |-> encRun]

IsImageFile(file) == file.type.major = "image" /\ "image" \in DOMAIN file

PipelineInit ==
    /\ PipelineIdle
    /\ CompressIdle /\ FecIdle /\ HeaderIdle /\ SizingIdle /\ LayoutIdle /\ LocateIdle /\ EccIdle

\* the test of startEncoding / startDecoding left out: a click always starts a run
Mut_AlreadyProcessing(isProcessing) == FALSE

\* startEncoding / startDecoding: if (this.isProcessing) { warning; return }
AlreadyProcessing(isProcessing) == isProcessing

\* handleFiles(files) with a file: it becomes the selected file and sets this.dataType
HandleFiles ==
    /\ encCount.selects < MaxSelects
    /\ \E file \in FileSamples :
          /\ selectedFile' = file
          /\ encDataType' = detectDataType(file)
    /\ encCount' = [encCount EXCEPT !.selects = @ + 1]
    /\ UNCHANGED <<encIsProcessing, encodeBtnDisabled, encRead, codeCanvas, encStatus, encRun>>
    /\ UNCHANGED <<cvars, fvars, hvars, mvars, dvars, lvars, kvars, gvars>>

\* startEncoding up to the await of readFile inside encodeFile
StartEncoding ==
    /\ IF selectedFile = NoFile \/ AlreadyProcessing(encIsProcessing)
       THEN /\ encStatus' = "warning"
            /\ UNCHANGED <<encIsProcessing, encodeBtnDisabled, encRead, encCount>>
       ELSE /\ encCount.runs < MaxEncodes
            /\ encIsProcessing' = TRUE
            /\ encodeBtnDisabled' = TRUE
            /\ encRead' = [kind |-> "read", file |-> selectedFile,
                           asText |-> encDataType = "text"]
            /\ encCount' = [encCount EXCEPT !.pending = @ + 1]
            /\ UNCHANGED encStatus
    /\ UNCHANGED <<selectedFile, encDataType, codeCanvas, encRun>>
    /\ UNCHANGED <<cvars, fvars, hvars, mvars, dvars, lvars, kvars, gvars>>

\* the read settles with the bytes: the rest of encodeFile, then the finally
\* of startEncoding
ReadDone ==
    /\ encRead # NoFile
    /\ encStatus' = "success"
    /\ encIsProcessing' = FALSE
    /\ encodeBtnDisabled' = FALSE
    /\ encRead' = NoFile
    /\ encCount' = [encCount EXCEPT !.runs = @ + 1, !.pending = @ - 1]
    /\ \E timestamp \in RunTimestamps, id \in RunIds :
       \E fileData \in {readFile(encRead)} :
       \E compressed \in {compress(fileData, encDataType)} :
       \E metadata \in {generateMetadata(encDataType, Wide(Len(fileData)),
                                         Wide(Len(compressed)), timestamp, id)} :
       \E dataWithMeta \in {concatenateArrays(metadata, compressed)} :
       \E encoded \in {encode(dataWithMeta)} :
       \E matrixSize \in MatrixSizes, rounding \in Roundings :
          /\ codeCanvas' = renderToCanvas(encoded, matrixSize, rounding)
          /\ encRun' = [kind |-> "run", file |-> encRead.file,
                        dataType |-> encDataType, encoded |-> encoded]
    /\ UNCHANGED <<selectedFile, encDataType>>
    /\ UNCHANGED <<cvars, fvars, hvars, mvars, dvars, lvars, kvars, gvars>>

\* the read fails, and startEncoding has its catch but no finally
Mut_ReadFailed ==
    /\ encRead # NoFile
    /\ encStatus' = "error"
    /\ encRead' = NoFile
    /\ encCount' = [encCount EXCEPT !.runs = @ + 1, !.pending = @ - 1]
    /\ UNCHANGED <<selectedFile, encDataType, encIsProcessing, encodeBtnDisabled, codeCanvas, encRun>>
    /\ UNCHANGED <<cvars, fvars, hvars, mvars, dvars, lvars, kvars, gvars>>

\* the read fails: the catch and the finally of startEncoding
ReadFailed ==
    /\ encRead # NoFile
    /\ encStatus' = "error"
    /\ encIsProcessing' = FALSE
    /\ encodeBtnDisabled' = FALSE
    /\ encRead' = NoFile
    /\ encCount' = [encCount EXCEPT !.runs = @ + 1, !.pending = @ - 1]
    /\ UNCHANGED <<selectedFile, encDataType, codeCanvas, encRun>>
    /\ UNCHANGED <<cvars, fvars, hvars, mvars, dvars, lvars, kvars, gvars>>

\* handleScanFiles(files) with a file: this.scannedFile is assigned before the type test
HandleScanFiles ==
    /\ decCount.drops < MaxDrops
    /\ \E file \in ScanSamples \cup (IF codeCanvas = NoCanvas THEN {} ELSE {CanvasDownload}) :
          /\ scannedFile' = file
          /\ decStatus' = IF file.type.major # "image"
                          THEN [type |-> "error", error |-> "not an image"]
                          ELSE decStatus
    /\ decCount' = [decCount EXCEPT !.drops = @ + 1]
    /\ UNCHANGED <<decIsProcessing, decodeBtnDisabled, decLoad, decFec, decMetadata, decContent, decRun>>
    /\ UNCHANGED <<cvars, fvars, hvars, mvars, evars, lvars, kvars, gvars>>

\* startDecoding up to the await of loadImageData inside decodeFile
StartDecoding ==
    /\ IF scannedFile = NoFile \/ AlreadyProcessing(decIsProcessing)
       THEN /\ decStatus' = [type |-> "warning", error |-> "none"]
            /\ UNCHANGED <<decIsProcessing, decodeBtnDisabled, decLoad, decCount>>
       ELSE /\ decCount.runs < MaxDecodes
            /\ decIsProcessing' = TRUE
            /\ decodeBtnDisabled' = TRUE
            /\ decLoad' = scannedFile
            /\ decCount' = [decCount EXCEPT !.pending = @ + 1]
            /\ UNCHANGED decStatus
    /\ UNCHANGED <<scannedFile, decFec, decMetadata, decContent, decRun>>
    /\ UNCHANGED <<cvars, fvars, hvars, mvars, evars, lvars, kvars, gvars>>

Failure(error) == [type |-> "error", error |-> error]

\* the test of decodeFile on the located markers, with 3 for 4
Mut_MarkersMissing(markers) == Len(markers) < 3

\* decodeFile: if (markers.length < 4) throw
MarkersMissing(markers) == Len(markers) < 4

\* decodeFile from the test of the ECC result on, given the markers and the object
\* ecc.decode returned: what it leaves in the page, and the length of the
\* payload it handed to decompress (-1 where it did not get there)
DecodeOutcome(markers, decoded, shown) ==
    LET metadata     == parseMetadata(Slice(decoded.data, 0, 32))
        payload      == Slice(decoded.data, 32, Len(decoded.data))
        decompressed == decompress(payload, metadata.dataType)
    IN  IF MarkersMissing(markers)
        THEN [fec |-> NoResult, handed |-> -1, metadata |-> NoResult, content |-> shown,
              status |-> Failure("markers")]
        ELSE IF "uncorrectable" \in DOMAIN decoded /\ decoded.uncorrectable
        THEN [fec |-> decoded, handed |-> -1, metadata |-> NoResult, content |-> shown,
              status |-> Failure("uncorrectable")]
        ELSE IF metadata.error # "none"
        THEN [fec |-> decoded, handed |-> -1, metadata |-> NoResult, content |-> shown,
              status |-> Failure(metadata.error)]
        ELSE IF metadata.dataType = "text"
        THEN \* showDecodedContent clears the area; TextDecoder.decode takes no string
             IF decompressed.kind # "bytes"
             THEN [fec |-> decoded, handed |-> Len(payload), metadata |-> metadata, content |-> NoResult,
                   status |-> Failure("TypeError")]
             ELSE [fec |-> decoded, handed |-> Len(payload), metadata |-> metadata,
                   content |-> [kind |-> "string", val |-> TextDecode(decompressed.val)],
                   status |-> [type |-> "success", error |-> "none"]]
        ELSE [fec |-> decoded, handed |-> Len(payload), metadata |-> metadata, content |-> decompressed,
              status |-> [type |-> "success", error |-> "none"]]

\* the image loads: the rest of decodeFile, then the finally of startDecoding
LoadDone ==
    /\ decLoad # NoFile
    /\ IsImageFile(decLoad)
    /\ decIsProcessing' = FALSE
    /\ decodeBtnDisabled' = FALSE
    /\ decLoad' = NoFile
    /\ decCount' = [decCount EXCEPT !.runs = @ + 1, !.pending = @ - 1]
    /\ \E markers \in {detectMarkers(decLoad.image.width, decLoad.image.height)} :
       \E modules \in {extractModules(decLoad.image, markers)} :
       \E byteData \in {colorModulesToBytes(modules)} :
       \E results \in BlockResults(extractBlocks(byteData)) :
       \E decoded \in {DecodeResult(results)} :
       \E outcome \in {DecodeOutcome(markers, decoded, decContent)} :
          /\ decFec' = outcome.fec
          /\ decMetadata' = outcome.metadata
          /\ decContent' = outcome.content
          /\ decStatus' = outcome.status
          /\ decRun' = [kind |-> "run", file |-> decLoad, handed |-> outcome.handed,
                        flagged |-> \E b \in 1..Len(results) : results[b].uncorrectable]
    /\ UNCHANGED scannedFile
    /\ UNCHANGED <<cvars, fvars, hvars, mvars, evars, lvars, kvars, gvars>>

\* the file is no image the browser can load: the catch and the finally of startDecoding
LoadFailed ==
    /\ decLoad # NoFile
    /\ ~IsImageFile(decLoad)
    /\ decStatus' = Failure("load")
    /\ decRun' = [kind |-> "run", file |-> decLoad, handed |-> -1, flagged |-> FALSE]
    /\ decIsProcessing' = FALSE
    /\ decodeBtnDisabled' = FALSE
    /\ decLoad' = NoFile
    /\ decCount' = [decCount EXCEPT !.runs = @ + 1, !.pending = @ - 1]
    /\ UNCHANGED <<scannedFile, decFec, decMetadata, decContent>>
    /\ UNCHANGED <<cvars, fvars, hvars, mvars, evars, lvars, kvars, gvars>>

Next ==
    \/ HandleFiles \/ StartEncoding \/ ReadDone \/ ReadFailed
    \/ HandleScanFiles \/ StartDecoding \/ LoadDone \/ LoadFailed

Spec == PipelineInit /\ [][Next]_vars

\* the last decodeFile ran to its end on the download of an encode of a file under
\* the type detected for that file
DecodedOwnEncode ==
    /\ decRun # NoRun /\ decLoad = NoFile
    /\ IsImageFile(decRun.file)
    /\ decRun.file.run.dataType = detectDataType(decRun.file.run.file)

\* C2: with nothing corrupted between the two pipelines, decoding the image that the
\* encode pipeline made of a payload x under its content type returns x exactly,
\* with correctedErrors = 0
EndToEndIdentity ==
    DecodedOwnEncode =>
        /\ decStatus.type = "success"
        /\ BytesOf(decContent) = decRun.file.run.file.data
        /\ decFec.correctedErrors = 0

\* C5: when a block is flagged uncorrectable during FEC decode, the decode result
\* carries uncorrectable = TRUE and the pipeline fails before any header is parsed
\* or any payload decompressed and shown
UncorrectableAborts ==
    (decRun # NoRun /\ decLoad = NoFile /\ decRun.flagged) =>
        /\ "uncorrectable" \in DOMAIN decFec /\ decFec.uncorrectable
        /\ decStatus = Failure("uncorrectable")
        /\ decMetadata = NoResult
        /\ decContent = NoResult

(***************************************************************************)
(* Layout harness: a stream is laid on a grid and read back                *)
(* (bytesToColorModules, colorModulesToBytes); on a square grid it is then *)
(* rendered as encodeFile does                                             *)
(***************************************************************************)
MaxStreamLen == 20                   \* the longest stream of the harness

\* streams of one repeated byte, and a ramp over many byte values
LayoutStreams ==
    {Rep(b, n) : b \in {0, 7, 255}, n \in {0, 3, 4, 16, 17, MaxStreamLen}}
    \cup {[k \in 1..n |-> (k * 37) % 256] : n \in {3, 4, 16, 17, MaxStreamLen}}

\* grid sides: 2 x 2 holds 16 bytes; 27 is the least side with four disjoint markers
\* inside the grid
LayoutSides == {2, 8, 27}

LayoutInit ==
    /\ lpc = "input"
    /\ lbytes \in LayoutStreams
    /\ lw \in LayoutSides
    /\ lh \in LayoutSides
    /\ lmodules = <<>> /\ lback = <<>> /\ lcanvas = NoCanvas
    /\ CompressIdle /\ FecIdle /\ HeaderIdle /\ SizingIdle /\ PipelineIdle /\ LocateIdle /\ EccIdle

\* bytesToColorModules(bytes, width, height), and colorModulesToBytes of its result
LayoutModules ==
    /\ lpc = "input"
    /\ \E modules \in {bytesToColorModules(lbytes, lw, lh)} :
          /\ lmodules' = modules
          /\ lback' = colorModulesToBytes(modules)
    /\ lpc' = "laid"
    /\ UNCHANGED <<lbytes, lw, lh, lcanvas>>
    /\ UNCHANGED <<cvars, fvars, hvars, mvars, evars, dvars, kvars, gvars>>

\* encodeFile, steps 5 and 6: the modules of a matrixSize x matrixSize grid are drawn
RenderMatrix ==
    /\ lpc = "laid"
    /\ lw = lh
    /\ \E rounding \in Roundings : lcanvas' = renderToCanvas(lbytes, lw, rounding)
    /\ lpc' = "rendered"
    /\ UNCHANGED <<lbytes, lw, lh, lmodules, lback>>
    /\ UNCHANGED <<cvars, fvars, hvars, mvars, evars, dvars, kvars, gvars>>

LayoutNext == LayoutModules \/ RenderMatrix

SpecLayout == LayoutInit /\ [][LayoutNext]_vars

\* C11: no matrix is produced of a side S whose S * S modules of 4 bytes cannot hold
\* the whole codeword stream (encoding fails with MatrixTooSmall instead)
NoTruncatedMatrix ==
    lpc = "rendered" => 4 * lw * lh >= Len(lbytes)

\* C12: in every produced matrix, no module that a stamped corner marker covers
\* carries bytes of the codeword stream
MarkersSpareStream ==
    lpc = "rendered" =>
        \A mx \in 0..(lw - 1), my \in 0..(lh - 1) :
            MarkerPaints(lw, mx, my) => (my * lw + mx) * 4 >= Len(lbytes)

\* C13: for every stream b and grid w x h with 4 * w * h >= len(b), the first len(b)
\* bytes of colorModulesToBytes(bytesToColorModules(b, w, h)) are b
LayoutRoundTrip ==
    (lpc \in {"laid", "rendered"} /\ 4 * lw * lh >= Len(lbytes)) =>
        Slice(lback, 0, Len(lbytes)) = lbytes

\* C14: the bytes decodeFile hands to decompress are exactly the compressedSize bytes
\* after the 32-byte header, and the payload it then shows has length originalSize
DecompressesDeclaredBytes ==
    (decRun # NoRun /\ decLoad = NoFile /\ decRun.handed >= 0) =>
        /\ Wide(decRun.handed) = decMetadata.compressedSize
        /\ decStatus.type = "success" =>
               Wide(Len(decContent.val)) = decMetadata.originalSize

\* C15: the content type an encode call compresses with and writes in its header is
\* the type detected for the file that call read, whatever is selected meanwhile
EncodeOwnsItsType ==
    encRun # NoRun => encRun.dataType = detectDataType(encRun.file)

(***************************************************************************)
(* Decompression of a received stream: decompress is applied to bytes that *)
(* compress did not necessarily produce                                    *)
(***************************************************************************)
MaxReceivedLen == 3

\* the RLE sentinel, the dictionary terminator, a pattern code and a plain byte
ReceivedAlphabet == {254, 255, 160, 5}

ReceivedStreams == UNION {[1..n -> ReceivedAlphabet] : n \in 0..MaxReceivedLen}

ReceiveInit ==
    /\ cpc = "received"
    /\ cx = <<>>
    /\ ct \in DataTypes
    /\ cz \in ReceivedStreams
    /\ cout = [kind |-> "none", val |-> <<>>]
    /\ FecIdle /\ HeaderIdle /\ SizingIdle /\ PipelineIdle /\ LayoutIdle /\ LocateIdle /\ EccIdle

SpecReceive == ReceiveInit /\ [][Decompress]_vars

RECURSIVE EscapeCutFrom(_, _)
\* reading records from index i (0-based): a sentinel 0xFE opens a record of three
\* bytes; TRUE when the stream ends inside such a record
EscapeCutFrom(z, i) ==
    IF i >= Len(z) THEN FALSE
    ELSE IF z[i + 1] = 254
    THEN IF i + 2 < Len(z) THEN EscapeCutFrom(z, i + 3) ELSE TRUE
    ELSE EscapeCutFrom(z, i + 1)

TruncatedEscape(z) == EscapeCutFrom(z, 0)

\* the stream the dictionary is read from has no 0xFF before its end
MissingTerminator(z, dataType) ==
    /\ dataType \in {"binary", "image"}
    /\ ~TruncatedEscape(z)
    /\ LET decompressed == runLengthDecode(z)
       IN  \A k \in 1..Len(decompressed) : decompressed[k] # 255

\* C16: decompress fails with CorruptStream and returns no bytes when its input ends
\* in a truncated escape record or the binary dictionary has no 0xFF terminator
CorruptStreamRejected ==
    (cpc = "decompressed" /\ (TruncatedEscape(cz) \/ MissingTerminator(cz, ct))) =>
        cout = [kind |-> "CorruptStream", val |-> <<>>]

(***************************************************************************)
(* decodeFile with the answer of the marker locator as an input            *)
(***************************************************************************)
RECURSIVE SubSeqs(_)
\* the sub-sequences of s: corners.forEach pushes the centers it finds, in order
SubSeqs(s) ==
    IF s = <<>> THEN {<<>>}
    ELSE LET rest == SubSeqs(Tail(s))
         IN  rest \cup {<<Head(s)>> \o r : r \in rest}

LocateStreams == {Rep(7, 3), Rep(255, 16), [k \in 1..MaxStreamLen |-> (k * 37) % 256]}

LocateImages ==
    {[kind |-> "file", extension |-> "png", type |-> Mime("image", "png"),
      image |-> renderToCanvas(bytes, size, rounding)] :
        bytes \in LocateStreams, size \in MatrixSizes, rounding \in Roundings}

\* decodeFile is suspended in loadImageData; the locator will find locMarkers
LocateInit ==
    /\ scannedFile \in LocateImages
    /\ decLoad = scannedFile
    /\ decIsProcessing = TRUE /\ decodeBtnDisabled = TRUE
    /\ locMarkers \in SubSeqs(detectMarkers(decLoad.image.width, decLoad.image.height))
    /\ locModules = NoResult
    /\ decFec = NoResult /\ decMetadata = NoResult /\ decContent = NoResult
    /\ decStatus = [type |-> "none", error |-> "none"] /\ decRun = NoRun
    /\ decCount = [drops |-> 1, runs |-> 0, pending |-> 1]
    /\ selectedFile = NoFile /\ encDataType = "undefined" /\ encIsProcessing = FALSE /\ encodeBtnDisabled = FALSE
    /\ encRead = NoFile /\ codeCanvas = NoCanvas /\ encStatus = "none" /\ encRun = NoRun
    /\ encCount = [selects |-> 0, runs |-> 0, pending |-> 0]
    /\ CompressIdle /\ FecIdle /\ HeaderIdle /\ SizingIdle /\ LayoutIdle /\ EccIdle

\* the image loads: the rest of decodeFile on the markers found, then the finally of
\* startDecoding.  With two markers of equal x modulePx is 0, gridSize is Infinity and
\* the loop of extractModules does not end: the step has no successor then
LocatedDone ==
    /\ decLoad # NoFile
    /\ IsImageFile(decLoad)
    /\ IF MarkersMissing(locMarkers) THEN TRUE ELSE locMarkers[2].x # locMarkers[1].x
    /\ IF MarkersMissing(locMarkers)
       THEN \E outcome \in {DecodeOutcome(locMarkers, NoResult, decContent)} :
               /\ decFec' = outcome.fec
               /\ decMetadata' = outcome.metadata
               /\ decContent' = outcome.content
               /\ decStatus' = outcome.status
               /\ decRun' = [kind |-> "run", file |-> decLoad, handed |-> outcome.handed,
                             flagged |-> FALSE]
               /\ locModules' = NoResult
       ELSE \E modules \in {extractModules(decLoad.image, locMarkers)} :
            \E byteData \in {colorModulesToBytes(modules)} :
            \E results \in BlockResults(extractBlocks(byteData)) :
            \E decoded \in {DecodeResult(results)} :
            \E outcome \in {DecodeOutcome(locMarkers, decoded, decContent)} :
               /\ decFec' = outcome.fec
               /\ decMetadata' = outcome.metadata
               /\ decContent' = outcome.content
               /\ decStatus' = outcome.status
               /\ decRun' = [kind |-> "run", file |-> decLoad, handed |-> outcome.handed,
                             flagged |-> \E b \in 1..Len(results) : results[b].uncorrectable]
               /\ locModules' = [kind |-> "modules", val |-> modules]
    /\ decIsProcessing' = FALSE
    /\ decodeBtnDisabled' = FALSE
    /\ decLoad' = NoFile
    /\ decCount' = [decCount EXCEPT !.runs = @ + 1, !.pending = @ - 1]
    /\ UNCHANGED <<scannedFile, locMarkers>>
    /\ UNCHANGED <<cvars, fvars, hvars, mvars, evars, lvars, gvars>>

SpecLocate == LocateInit /\ [][LocatedDone]_vars

\* C17: when the locator supplies fewer than four corners, decodeFile fails with the
\* markers error and extracts no modules (nor decodes or parses anything)
MissingMarkersAbort ==
    (decRun # NoRun /\ Len(locMarkers) < 4) =>
        /\ decStatus = Failure("markers")
        /\ locModules = NoResult
        /\ decFec = NoResult /\ decMetadata = NoResult

\* a run that was given three corners and failed on them
MissingMarkersWitness ==
    /\ decRun # NoRun
    /\ Len(locMarkers) = 3
    /\ decStatus = Failure("markers")
    /\ locModules = NoResult

\* the bytes of the modules under the four corner markers: markerSize * markerSize
\* modules each, four bytes a module
markerReservation == 4 * (markerSize * markerSize) * 4

\* S is the least side in [256, 4096] whose S * S modules of four bytes hold n bytes
\* and the marker reservation (4096 where no side in range does)
LeastSufficientSide(n, S) ==
    /\ S \in 256..maxSize
    /\ S < maxSize => S * S * 4 >= n + markerReservation
    /\ S > 256 => (S - 1) * (S - 1) * 4 < n + markerReservation

\* C18: for every stream length n, calculateMatrixSize(n) is the least side S with
\* S * S * 4 >= n + markerReservation, clamped to [256, 4096]
MatrixSizeIsLeast ==
    mpc = "sized" => LeastSufficientSide(mm, msm) /\ LeastSufficientSide(mn, msn)

\* C19: generateMetadata rejects an originalSize or compressedSize beyond the unsigned
\* 32-bit range: no header is produced, none with the size reduced modulo 2^32
OversizeRejected ==
    (hpc # "input" /\ (horig.hi >= Limb \/ hcomp.hi >= Limb)) => hsent = <<>>

\* C20: parsing a 32-byte header whose type code is none of 1, 2, 3, 4 fails with
\* UnknownContentType and yields no content type
UnknownTypeRejected ==
    (hpc = "parsed" /\ Len(hbytes) = 32
        /\ ~(getUint32(hbytes, 8).hi = 0 /\ getUint32(hbytes, 8).lo \in 1..4)) =>
        hmeta = [error |-> "UnknownContentType"]

\* C21: layout is deterministic: every module beyond the end of the stream holds a fixed
\* function of its index alone, whatever the stream, so two layouts of one stream on one
\* grid are the same grid
FillerFixedByIndex ==
    lpc \in {"laid", "rendered"} =>
        /\ Len(lmodules) = lw * lh
        /\ \A k \in 1..Len(lmodules) :
              4 * (k - 1) >= Len(lbytes) =>
                  lmodules[k] = [r |-> ((k - 1) * 7) % 256, g |-> ((k - 1) * 13) % 256,
                                 b |-> ((k - 1) * 19) % 256, a |-> 255]

\* a non-empty stream laid on a grid with modules left over behind it
FillerWitness ==
    /\ lpc = "laid"
    /\ Len(lbytes) > 0
    /\ 4 * Len(lmodules) > Len(lbytes) + 4

(***************************************************************************)
(* Run-length harness: runLengthEncode, then runLengthDecode               *)
(***************************************************************************)
\* a plain byte, a letter and the sentinel 0xFE
RleAlphabet == {0, 97, 254}

\* runs below and above the threshold of 3 and around the largest count, 255
RleRunLens == {1, 2, 3, 4, 255, 256}

RECURSIVE RlePayloads(_)
RlePayloads(n) ==
    IF n = 0 THEN {<<>>}
    ELSE LET shorter == RlePayloads(n - 1)
         IN  shorter \cup {p \o Rep(b, r) : p \in shorter, b \in RleAlphabet, r \in RleRunLens}

RleInit ==
    /\ cpc = "rle input"
    /\ cx \in RlePayloads(MaxSegs)
    /\ ct = "binary"
    /\ cz = <<>>
    /\ cout = [kind |-> "none", val |-> <<>>]
    /\ FecIdle /\ HeaderIdle /\ SizingIdle /\ PipelineIdle /\ LayoutIdle /\ LocateIdle /\ EccIdle

RleEncode ==
    /\ cpc = "rle input"
    /\ cz' = runLengthEncode(cx)
    /\ cpc' = "rle encoded"
    /\ UNCHANGED <<cx, ct, cout, fvars, hvars, mvars, evars, dvars, lvars, kvars, gvars>>

RleDecode ==
    /\ cpc = "rle encoded"
    /\ cout' = [kind |-> "bytes", val |-> runLengthDecode(cz)]
    /\ cpc' = "rle decoded"
    /\ UNCHANGED <<cx, ct, cz, fvars, hvars, mvars, evars, dvars, lvars, kvars, gvars>>

RleNext == RleEncode \/ RleDecode

SpecRle == RleInit /\ [][RleNext]_vars

\* C22: the run-length pass is lossless, runLengthDecode(runLengthEncode(x)) = x, for x
\* with literal sentinels, alone or in short runs, runs longer than 255, and x ending
\* in a run or in a sentinel
RleRoundTrip ==
    cpc = "rle decoded" => cout.val = cx

\* a run of more than 255 bytes followed by a lone sentinel that ends the input, decoded
RleWitness ==
    /\ cpc = "rle decoded"
    /\ Len(cx) > 256
    /\ cx[1] = cx[256] /\ cx[1] # 254
    /\ cx[Len(cx)] = 254 /\ cx[Len(cx) - 1] # 254
    /\ Len(cz) = 7

(***************************************************************************)
(* Pattern harness: encodeFrequentPatterns, then decodeFrequentPatterns    *)
(***************************************************************************)
PatternInit ==
    /\ cpc = "pattern input"
    /\ cx \in Payloads(MaxSegs)
    /\ ct = "binary"
    /\ cz = <<>>
    /\ cout = [kind |-> "none", val |-> <<>>]
    /\ FecIdle /\ HeaderIdle /\ SizingIdle /\ PipelineIdle /\ LayoutIdle /\ LocateIdle /\ EccIdle

PatternEncode ==
    /\ cpc = "pattern input"
    /\ cz' = encodeFrequentPatterns(cx)
    /\ cpc' = "pattern encoded"
    /\ UNCHANGED <<cx, ct, cout, fvars, hvars, mvars, evars, dvars, lvars, kvars, gvars>>

PatternDecode ==
    /\ cpc = "pattern encoded"
    /\ cout' = [kind |-> "bytes", val |-> decodeFrequentPatterns(cz)]
    /\ cpc' = "pattern decoded"
    /\ UNCHANGED <<cx, ct, cz, fvars, hvars, mvars, evars, dvars, lvars, kvars, gvars>>

PatternNext == PatternEncode \/ PatternDecode

SpecPattern == PatternInit /\ [][PatternNext]_vars

\* C23: pattern substitution is invertible: for every byte sequence d,
\* decodeFrequentPatterns(encodeFrequentPatterns(d)) = d
PatternRoundTrip ==
    cpc = "pattern decoded" => cout.val = cx

(***************************************************************************)
(* Text harness: compressText, then decompressText                         *)
(***************************************************************************)
MaxTextLen == 3

\* 'a' and the two ends of the dictionary code range, 0x80 and 0x9F
TextAlphabet == {97, 128, 159}

\* the input as the Uint8Array compress passes on, or as a string of these characters
TextInputs ==
    {[kind |-> k, val |-> v] :
        k \in {"bytes", "string"}, v \in UNION {[1..n -> TextAlphabet] : n \in 0..MaxTextLen}}

TextInit ==
    /\ cpc = "text input"
    /\ cx \in TextInputs
    /\ ct = "text"
    /\ cz = <<>>
    /\ cout = [kind |-> "none", val |-> <<>>]
    /\ FecIdle /\ HeaderIdle /\ SizingIdle /\ PipelineIdle /\ LayoutIdle /\ LocateIdle /\ EccIdle

TextCompress ==
    /\ cpc = "text input"
    /\ cz' = compressText(cx)
    /\ cpc' = "text compressed"
    /\ UNCHANGED <<cx, ct, cout, fvars, hvars, mvars, evars, dvars, lvars, kvars, gvars>>

TextDecompress ==
    /\ cpc = "text compressed"
    /\ cout' = decompressText(cz)
    /\ cpc' = "text decompressed"
    /\ UNCHANGED <<cx, ct, cz, fvars, hvars, mvars, evars, dvars, lvars, kvars, gvars>>

TextNext == TextCompress \/ TextDecompress

SpecText == TextInit /\ [][TextNext]_vars

\* the bytes of an input: a Uint8Array's elements, a string's UTF-8 encoding
InputBytes(x) == IF x.kind = "bytes" THEN x.val ELSE Utf8(x.val)

\* C24: an input with the byte values 0x80..0x9F as literal data is restored exactly by
\* decompressText(compressText(x)): the text returned encodes to the bytes of x
ReservedBytesRestored ==
    (cpc = "text decompressed" /\ \E k \in 1..Len(InputBytes(cx)) :
                                      InputBytes(cx)[k] \in 128..159) =>
        Utf8(cout.val) = InputBytes(cx)

\* C25: for an image the encoder rendered at side S (width = height = 4 * S) and the
\* four corners detectMarkers returns, extractModules extracts exactly S * S modules,
\* module k read at the pixel 4 * (column, row) of cell k in row-major order
ExtractsWholeGrid ==
    (decRun # NoRun
        /\ locMarkers = detectMarkers(scannedFile.image.width, scannedFile.image.height)) =>
        LET S == scannedFile.image.matrixSize
        IN  /\ locModules # NoResult
            /\ Len(locModules.val) = S * S
            /\ \A k \in 1..(S * S) :
                  locModules.val[k] = CanvasPixel(scannedFile.image,
                                                  moduleSize * ((k - 1) % S),
                                                  moduleSize * ((k - 1) \div S))

(***************************************************************************)
(* Constructor harness: a caller holding data constructs the FEC engine    *)
(***************************************************************************)
MaxEccLen == 60

\* the data the caller means to encode with the instance
EccInputs == {Rep(fill, n) : fill \in FecFills, n \in 0..MaxEccLen}

EccInit ==
    /\ fpc = "new"
    /\ fdata \in EccInputs
    /\ fcode = <<>> /\ frecv = <<>> /\ fblk = <<>>
    /\ fres = [data |-> <<>>, correctedErrors |-> 0, success |-> TRUE]
    /\ eccInstance = NoResult
    /\ CompressIdle /\ HeaderIdle /\ SizingIdle /\ PipelineIdle /\ LayoutIdle /\ LocateIdle

\* this.ecc = new HMQCECC()
EccConstruct ==
    /\ fpc = "new"
    /\ eccInstance' = NewHMQCECC
    /\ fpc' = "constructed"
    /\ UNCHANGED <<fdata, fcode, frecv, fblk, fres, cvars, hvars, mvars, evars, dvars, lvars,
                   kvars>>

SpecEcc == EccInit /\ [][EccConstruct]_vars

\* C26: constructing the FEC engine raises no error and leaves a generator polynomial
\* of degree parityLength = 32, that is 33 coefficients
ConstructorCompletes ==
    fpc = "constructed" =>
        /\ eccInstance.kind = "instance"
        /\ Len(eccInstance.generatorPolynomial) = parityLength + 1

\* C27: for every received codeword rsDecodeBlock reports 0 or 32 errors, never a count
\* in 1..16: the correcting branch is not taken and the data returned is the first 223
\* received symbols as they came
ErrorCountAllOrNothing ==
    fpc = "decoded" =>
        \A b \in 1..Len(fblk) :
            /\ fblk[b].errors \in {0, parityLength}
            /\ fblk[b].uncorrectable = (fblk[b].errors = parityLength)
            /\ fblk[b].data = Slice(extractBlocks(frecv)[b], 0, messageLength)

\* a codeword received with one changed symbol was decoded with 32 errors
AllOrNothingWitness ==
    /\ fpc = "decoded"
    /\ Cardinality(ChangedSymbols) = 1
    /\ fblk[ChangedBlock].errors = parityLength

\* C30: a file handleScanFiles rejected as no image is never decoded: decodeFile only
\* ever runs on a file that passed the image type test
OnlyImagesDecoded ==
    /\ decLoad # NoFile => decLoad.type.major = "image"
    /\ decRun # NoRun => decRun.file.type.major = "image"

(***************************************************************************)
(* One instance at a time: the encoder, or the decoder, takes the clicks   *)
(* and completions while the other has used up its budget of the model     *)
(***************************************************************************)
EncoderAsBuilt ==
    /\ selectedFile = NoFile /\ encDataType = "undefined"
    /\ encIsProcessing = FALSE /\ encodeBtnDisabled = FALSE
    /\ encRead = NoFile /\ codeCanvas = NoCanvas /\ encStatus = "none" /\ encRun = NoRun
    /\ encCount = [selects |-> 0, runs |-> 0, pending |-> 0]

DecoderAsBuilt ==
    /\ scannedFile = NoFile /\ decIsProcessing = FALSE /\ decodeBtnDisabled = FALSE
    /\ decLoad = NoFile /\ decFec = NoResult /\ decMetadata = NoResult
    /\ decContent = NoResult /\ decStatus = [type |-> "none", error |-> "none"]
    /\ decRun = NoRun /\ decCount = [drops |-> 0, runs |-> 0, pending |-> 0]

\* the encoder after MaxSelects selections of one file and MaxEncodes runs whose read failed
EncoderSpent ==
    /\ selectedFile \in FileSamples /\ encDataType = detectDataType(selectedFile)
    /\ encIsProcessing = FALSE /\ encodeBtnDisabled = FALSE
    /\ encRead = NoFile /\ codeCanvas = NoCanvas /\ encStatus = "error" /\ encRun = NoRun
    /\ encCount = [selects |-> MaxSelects, runs |-> MaxEncodes, pending |-> 0]

\* the decoder after MaxDrops drops of one file that is no image and MaxDecodes runs on it
DecoderSpent ==
    /\ scannedFile \in ScanSamples /\ decIsProcessing = FALSE /\ decodeBtnDisabled = FALSE
    /\ decLoad = NoFile /\ decFec = NoResult /\ decMetadata = NoResult
    /\ decContent = NoResult /\ decStatus = Failure("load")
    /\ decRun = [kind |-> "run", file |-> scannedFile, handed |-> -1, flagged |-> FALSE]
    /\ decCount = [drops |-> MaxDrops, runs |-> MaxDecodes, pending |-> 0]

\* the decoder after the drop of an image some encoder drew
DecoderHoldsImage ==
    /\ scannedFile \in LocateImages /\ decIsProcessing = FALSE /\ decodeBtnDisabled = FALSE
    /\ decLoad = NoFile /\ decFec = NoResult /\ decMetadata = NoResult
    /\ decContent = NoResult /\ decStatus = [type |-> "none", error |-> "none"]
    /\ decRun = NoRun /\ decCount = [drops |-> 1, runs |-> 0, pending |-> 0]

InstanceInit ==
    /\ \/ EncoderAsBuilt /\ DecoderSpent
       \/ EncoderSpent /\ DecoderAsBuilt
       \/ EncoderSpent /\ DecoderHoldsImage
    /\ CompressIdle /\ FecIdle /\ HeaderIdle /\ SizingIdle /\ LayoutIdle /\ LocateIdle /\ EccIdle

SpecInstance == InstanceInit /\ [][Next]_vars

\* a read or an image load that is pending settles.  ReadDone and ReadFailed are enabled
\* exactly while encRead holds a file and each takes it away, so weak fairness of the
\* read's completion, <>[]ENABLED <<A>>_vars => []<><<A>>_vars, is []<>(encRead = NoFile);
\* likewise for LoadDone and LoadFailed and decLoad
SpecInstanceFair ==
    /\ SpecInstance
    /\ []<>(encRead = NoFile)
    /\ []<>(decLoad = NoFile)

\* C28: at most one encodeFile and at most one decodeFile is in flight at any time,
\* under every interleaving of clicks and completions: a startEncoding or startDecoding
\* invoked while isProcessing is true starts no second run
AtMostOneInFlight ==
    /\ encCount.pending <= 1 /\ decCount.pending <= 1
    /\ encIsProcessing <=> encCount.pending = 1
    /\ encRead # NoFile <=> encCount.pending = 1
    /\ decIsProcessing <=> decCount.pending = 1
    /\ decLoad # NoFile <=> decCount.pending = 1

\* the decoder was clicked again while its run on a dropped image awaited the load
ClickedWhileInFlight ==
    /\ scannedFile \in LocateImages
    /\ decIsProcessing /\ decLoad = scannedFile /\ decCount.pending = 1
    /\ decStatus.type = "warning"

====
